---- MODULE Spec2Model ----
(***************************************************************************)
(* scratch-sync: discovery of Syncthing peers on a Tailscale network,      *)
(* pairing against the local Syncthing configuration and linking of the    *)
(* paired devices into the managed ("scratch-") folders.                   *)
(*                                                                         *)
(* The local Syncthing daemon is reached only through `syncthing cli`;     *)
(* every command either exits 0 with its effect applied to the daemon's    *)
(* configuration, or exits non-zero with the configuration untouched.      *)
(* Python values: None is the string NoneStr (for text) or the record      *)
(* NonePeerInfo (for a dict); a dict is a function whose DOMAIN is its     *)
(* key set; a text that the code inspects by prefix is a sequence of       *)
(* characters.                                                             *)
(***************************************************************************)
EXTENDS Integers, Sequences, FiniteSets, TLC

(* ------------------------------ bounds ------------------------------- *)

\* most peers the tailscale status snapshot lists as online
MaxPeers == 2
\* most successive auto_pair_with_peer calls in the call-level specification
MaxCalls == 2
\* most successive executions of the link step in the link-level specification
MaxLinkRuns == 2

(* --------------------------- Python values --------------------------- *)

NoneStr == "<None>"

NonePeerInfo == [none |-> TRUE]

\* `not x` for a str | None
Falsy(x) == x = NoneStr \/ x = ""

\* `a or b`
PyOr(a, b) == IF Falsy(a) THEN b ELSE a

\* dict.get(key, default)
Get(d, k, default) == IF k \in DOMAIN d THEN d[k] ELSE default

\* str.startswith
StartsWith(s, p) == Len(s) >= Len(p) /\ SubSeq(s, 1, Len(p)) = p

\* x in s, for a list s
InList(x, s) == \E i \in 1..Len(s) : s[i] = x

Range(s) == {s[i] : i \in 1..Len(s)}

(* ------------------- discovery.py: the endpoint probe ------------------ *)

\* DiscoveryStatus
SUCCESS == "success"
CONNECTION_REFUSED == "connection_refused"
TIMEOUT == "timeout"
NO_SYNCTHING_HEADER == "no_syncthing_header"
HTTP_ERROR == "http_error"
UNKNOWN_ERROR == "unknown_error"

DiscoveryStatus ==
    {SUCCESS, CONNECTION_REFUSED, TIMEOUT, NO_SYNCTHING_HEADER, HTTP_ERROR, UNKNOWN_ERROR}

\* the fixed data-sync port put into every discovered identity
SyncthingPort == 22000

\* the status code the probe accepts
HttpOk == 200

\* an error_message is a sequence of text parts; None is <<NoneStr>>
NoneMsg == <<NoneStr>>

\* DiscoveryResult(status, peer_info=None, error_message=None)
DiscoveryResult(status, peer_info, error_message) ==
    [status |-> status, peer_info |-> peer_info, error_message |-> error_message]

\* str.lower() on the words of an exception text
LowerWord(w) ==
    CASE w = "Connection" -> "connection"
      [] w = "Refused" -> "refused"
      [] w = "REFUSED" -> "refused"
      [] OTHER -> w

Lower(words) == [i \in 1..Len(words) |-> LowerWord(words[i])]

\* What one HTTP GET of http://<ip>:8384/rest/noauth/health can produce:
\* a response (status code and headers) or one of the exceptions httpx raises.
NoHeaders == <<>>

IdHeader(id) == [h \in {"X-Syncthing-Id"} |-> id]

VersionHeader == [h \in {"X-Syncthing-Version"} |-> "v1.27.0"]

OkHeaderSets ==
    { NoHeaders, IdHeader(""), IdHeader("DEV-AAA"), VersionHeader,
      IdHeader("dev-bbb") @@ VersionHeader }

\* str(e) of the OSError behind a ConnectError, word by word
RefusedTexts ==
    { <<"[Errno 111]", "Connection", "refused">>,
      <<"[WinError 10061]", "No", "connection", "could", "be", "made", "because", "the",
        "target", "machine", "actively", "refused", "it">> }

NoRouteText == <<"[Errno 113]", "No", "route", "to", "host">>

InProgressText == <<"[Errno 115]", "Operation", "now", "in", "progress">>

ConnectErrorTexts == RefusedTexts \cup {NoRouteText}

HttpResponse(status_code, headers) ==
    [kind |-> "response", status_code |-> status_code, headers |-> headers, text |-> <<>>]

Raised(kind, text) ==
    [kind |-> kind, status_code |-> 0, headers |-> NoHeaders, text |-> text]

\* --timeout / -t of the pair command, in seconds
DefaultTimeout == 3

Timeouts == {0, DefaultTimeout}

\* what is behind <ip>:8384: an HTTP server, a host with the port closed, a
\* path that drops the packets, or no route at all
Networks == {"serving", "refusing", "silent", "unreachable"}

\* lines 52-53: httpx.Client(timeout=timeout).get(url). Every phase of the
\* request is bounded by `timeout`; a timeout of 0 puts the socket into
\* non-blocking mode, where connect() ends at once with EINPROGRESS, which
\* the transport reports as a ConnectError.
HttpGet(timeout, net) ==
    IF net = "unreachable" THEN {Raised("ConnectError", NoRouteText)}
    ELSE IF timeout = 0 THEN {Raised("ConnectError", InProgressText)}
    ELSE IF net = "refusing" THEN {Raised("ConnectError", t) : t \in RefusedTexts}
    ELSE IF net = "silent" THEN {Raised("TimeoutException", <<"timed out">>)}
    ELSE {HttpResponse(HttpOk, h) : h \in OkHeaderSets}
         \cup {HttpResponse(404, h) : h \in {NoHeaders, IdHeader("DEV-AAA")}}
         \cup {Raised("TimeoutException", <<"timed out">>),
               Raised("Exception", <<"boom">>)}

\* what the probes of a run with the default timeout can meet
Responses == UNION {HttpGet(DefaultTimeout, net) : net \in Networks}

\* every 200 response taken for a Syncthing peer
OkResult_AlwaysSuccess(ip, resp) ==
    DiscoveryResult(SUCCESS,
        [hostname |-> NoneStr,
         tailscale_ip |-> ip,
         syncthing_device_id |-> Get(resp.headers, "X-Syncthing-Id", NoneStr),
         syncthing_version |-> Get(resp.headers, "X-Syncthing-Version", "unknown"),
         syncthing_port |-> SyncthingPort],
        NoneMsg)

\* the device ID folded to lower case, the version header not consulted
OkResult_Normalised(ip, resp) ==
    LET device_id == Get(resp.headers, "X-Syncthing-Id", NoneStr)
    IN  IF ~Falsy(device_id) THEN
            DiscoveryResult(SUCCESS,
                [hostname |-> NoneStr,
                 tailscale_ip |-> ip,
                 syncthing_device_id |-> IF device_id = "DEV-AAA" THEN "dev-aaa" ELSE device_id,
                 syncthing_version |-> "unknown",
                 syncthing_port |-> SyncthingPort],
                NoneMsg)
        ELSE
            DiscoveryResult(NO_SYNCTHING_HEADER, NonePeerInfo,
                <<"HTTP response received but no X-Syncthing-Id header">>)

\* lines 56-74: the result for a 200 response
OkResult(ip, resp) ==
    LET device_id == Get(resp.headers, "X-Syncthing-Id", NoneStr)
        version == Get(resp.headers, "X-Syncthing-Version", "unknown")
    IN  IF ~Falsy(device_id) THEN
            DiscoveryResult(SUCCESS,
                [hostname |-> NoneStr,
                 tailscale_ip |-> ip,
                 syncthing_device_id |-> device_id,
                 syncthing_version |-> version,
                 syncthing_port |-> SyncthingPort],
                NoneMsg)
        ELSE
            DiscoveryResult(NO_SYNCTHING_HEADER, NonePeerInfo,
                <<"HTTP response received but no X-Syncthing-Id header">>)

\* the result for a non-200 response, were it to carry the identity it announces
HttpErrorResult_WithIdentity(ip, resp) ==
    LET device_id == Get(resp.headers, "X-Syncthing-Id", NoneStr)
    IN  DiscoveryResult(HTTP_ERROR,
            IF Falsy(device_id) THEN NonePeerInfo
            ELSE [hostname |-> NoneStr, tailscale_ip |-> ip,
                  syncthing_device_id |-> device_id, syncthing_version |-> "unknown",
                  syncthing_port |-> SyncthingPort],
            <<"HTTP ", resp.status_code>>)

\* a non-200 response that announces an identity taken like a 200 response
HttpErrorResult_HeaderWins(ip, resp) ==
    IF Falsy(Get(resp.headers, "X-Syncthing-Id", NoneStr))
    THEN DiscoveryResult(HTTP_ERROR, NonePeerInfo, <<"HTTP ", resp.status_code>>)
    ELSE OkResult(ip, resp)

\* lines 75-79: the result for a non-200 response
HttpErrorResult(ip, resp) ==
    DiscoveryResult(HTTP_ERROR, NonePeerInfo, <<"HTTP ", resp.status_code>>)

\* only the two-word phrase looked for
RefusedIn_PhraseOnly(error_str) ==
    \E i \in 1..(Len(error_str) - 1) :
        error_str[i] = "connection" /\ error_str[i + 1] = "refused"

\* line 83: "refused" in error_str or "connection refused" in error_str
RefusedIn(error_str) ==
    \/ InList("refused", error_str)
    \/ \E i \in 1..(Len(error_str) - 1) :
          error_str[i] = "connection" /\ error_str[i + 1] = "refused"

\* a connection error that is not a refusal reported as a timeout, cause dropped
ConnectErrorResult_AsTimeout(resp) ==
    IF RefusedIn(Lower(resp.text)) THEN
        DiscoveryResult(CONNECTION_REFUSED, NonePeerInfo,
            <<"Connection refused - Syncthing GUI not listening on this address">>)
    ELSE
        DiscoveryResult(TIMEOUT, NonePeerInfo, <<"Connection timed out">>)

\* lines 81-92: the result for an httpx.ConnectError
ConnectErrorResult(resp) ==
    IF RefusedIn(Lower(resp.text)) THEN
        DiscoveryResult(CONNECTION_REFUSED, NonePeerInfo,
            <<"Connection refused - Syncthing GUI not listening on this address">>)
    ELSE
        DiscoveryResult(UNKNOWN_ERROR, NonePeerInfo, <<"Connection error: ">> \o resp.text)

\* discover_syncthing_peer_detailed(ip, port=8384, timeout), given what the GET produced
discover_syncthing_peer_detailed(ip, resp) ==
    IF resp.kind = "response" THEN
        IF resp.status_code = HttpOk THEN OkResult(ip, resp)
        ELSE HttpErrorResult(ip, resp)
    ELSE IF resp.kind = "ConnectError" THEN
        ConnectErrorResult(resp)
    ELSE IF resp.kind = "TimeoutException" THEN
        DiscoveryResult(TIMEOUT, NonePeerInfo, <<"Connection timed out">>)
    ELSE
        DiscoveryResult(UNKNOWN_ERROR, NonePeerInfo, resp.text)

VARIABLES
    probes,     \* the direct calls of the probe made so far: arguments, GET, result
    prereq,     \* the prerequisites present on this host, once the command looked
    aborted,    \* whether the operator left the selection prompt without an answer
    formatted,  \* the direct calls of _format_time made so far: arguments, result
    st          \* the status command: where it is, its sources, what it has printed

statusVars == <<formatted, st>>

\* neither _format_time nor the status command has been called
InitStatusIdle ==
    /\ formatted = <<>>
    /\ st = [pc |-> "idle"]

MaxProbes == 2

\* the overlay addresses probed
ProbeIps == {"100.64.0.1", "100.64.0.2"}

\* one call discover_syncthing_peer_detailed(ip, timeout=timeout) against a
\* peer whose network answers as `net`
CallProbe(ip, timeout, net) ==
    /\ Len(probes) < MaxProbes
    /\ \E resp \in HttpGet(timeout, net) :
          probes' = Append(probes,
                        [ip |-> ip, timeout |-> timeout, net |-> net, resp |-> resp,
                         result |-> discover_syncthing_peer_detailed(ip, resp)])

(* ------------- the local Syncthing daemon behind `syncthing cli` -------- *)

VARIABLES
    devices,    \* the daemon's configured devices, in configuration order
    folders,    \* the daemon's configured folders, each with its share list
    devices0,   \* the configuration the daemon had when the commands started
    folders0

\* exit codes of a `syncthing cli` command
ExitCodes == {0, 1}

DeviceIds(devs) == [i \in 1..Len(devs) |-> devs[i].deviceID]

FolderIds(flds) == [i \in 1..Len(flds) |-> flds[i].id]

\* the address of a device record nobody set an address on
DynamicAddress == <<"dynamic">>

\* a daemon that appends the record without looking for the ID
DaemonAddDevice_Append(devs, device_id, name) ==
    {Append(devs, [deviceID |-> device_id, name |-> name, addresses |-> <<DynamicAddress>>])}

\* `config devices add --device-id <id> [--name <name>]` accepted by the daemon:
\* a new record with the default (dynamic) address. The daemon keeps device IDs
\* unique: for an ID it already has, it keeps the old record or takes the new one.
DaemonAddDevice(devs, device_id, name) ==
    LET fresh == [deviceID |-> device_id, name |-> name, addresses |-> <<DynamicAddress>>]
    IN  IF InList(device_id, DeviceIds(devs))
        THEN { devs,
               [i \in 1..Len(devs) |-> IF devs[i].deviceID = device_id THEN fresh ELSE devs[i]] }
        ELSE { Append(devs, fresh) }

\* `config devices <id> addresses set <address>` accepted by the daemon
DaemonSetAddress(devs, device_id, address) ==
    [i \in 1..Len(devs) |->
        IF devs[i].deviceID = device_id
        THEN [devs[i] EXCEPT !.addresses = <<address>>]
        ELSE devs[i]]

\* a daemon that appends to the share list without looking at it
DaemonAddFolderDevice_Append(flds, devs, folder_id, device_id) ==
    [i \in 1..Len(flds) |->
        IF flds[i].id = folder_id
        THEN [flds[i] EXCEPT !.devices = Append(@, device_id)]
        ELSE flds[i]]

\* `config folders <folder> devices add --device-id <id>` accepted by the daemon:
\* share lists hold configured devices only, each at most once.
DaemonAddFolderDevice(flds, devs, folder_id, device_id) ==
    [i \in 1..Len(flds) |->
        IF flds[i].id = folder_id
           /\ InList(device_id, DeviceIds(devs))
           /\ ~InList(device_id, flds[i].devices)
        THEN [flds[i] EXCEPT !.devices = Append(@, device_id)]
        ELSE flds[i]]

\* stdout of a `list` command: one ID per line; .strip().split("\n") of it
StdoutLines(ids) == IF ids = <<>> THEN <<"">> ELSE ids

NonEmptyLine(line) == line # ""

\* syncthing.list_devices(): [] when the command fails, else its non-empty lines
list_devices(rc, devs) ==
    IF rc # 0 THEN <<>> ELSE SelectSeq(StdoutLines(DeviceIds(devs)), NonEmptyLine)

\* syncthing.list_folders(): [] when the command fails, else its non-empty lines
list_folders(rc, flds) ==
    IF rc # 0 THEN <<>> ELSE SelectSeq(StdoutLines(FolderIds(flds)), NonEmptyLine)

\* exit codes `addresses set` can end with: never 0 for a device the daemon lacks
SetAddressExitCodes(devs, device_id) ==
    IF InList(device_id, DeviceIds(devs)) THEN ExitCodes ELSE ExitCodes \ {0}

\* exit codes `folders <folder> devices add` can end with: never 0 for an unknown folder
AddFolderDeviceExitCodes(flds, folder_id) ==
    IF InList(folder_id, FolderIds(flds)) THEN ExitCodes ELSE ExitCodes \ {0}

(* ------------------- discovery.py: auto_pair_with_peer ----------------- *)

VARIABLES
    frame,      \* per caller: the activation of auto_pair_with_peer it is in
    history     \* the calls that returned, oldest first: argument, result, commands

\* callers of auto_pair_with_peer (each a thread of control of its own): the
\* pair command is caller 1; caller 2 is another run going on at the same time
Callers == {1, 2}

IdleFrame == [pc |-> "idle"]

\* f"tcp://{ip}:{port}"
TcpAddress(ip, port) == <<"tcp://", ip, ":", port>>

\* EnterPair with the guard of line 142 testing the device_id alone
EnterPair_NoIpCheck(peer_info) ==
    LET device_id == Get(peer_info, "syncthing_device_id", NoneStr)
        ip == Get(peer_info, "tailscale_ip", NoneStr)
        hostname == PyOr(Get(peer_info, "hostname", NoneStr),
                         Get(peer_info, "tailscale_hostname", NoneStr))
        port == Get(peer_info, "syncthing_port", SyncthingPort)
        locals == [peer_info |-> peer_info, device_id |-> device_id, ip |-> ip,
                   hostname |-> hostname, port |-> port, cmds |-> <<>>]
    IN  IF Falsy(device_id)
        THEN locals @@ [pc |-> "return", result |-> FALSE]
        ELSE locals @@ [pc |-> "list_devices"]

\* lines 137-143: the locals, and the early return for a missing device_id or ip
EnterPair(peer_info) ==
    LET device_id == Get(peer_info, "syncthing_device_id", NoneStr)
        ip == Get(peer_info, "tailscale_ip", NoneStr)
        hostname == PyOr(Get(peer_info, "hostname", NoneStr),
                         Get(peer_info, "tailscale_hostname", NoneStr))
        port == Get(peer_info, "syncthing_port", SyncthingPort)
        locals == [peer_info |-> peer_info, device_id |-> device_id, ip |-> ip,
                   hostname |-> hostname, port |-> port, cmds |-> <<>>]
    IN  IF Falsy(device_id) \/ Falsy(ip)
        THEN locals @@ [pc |-> "return", result |-> FALSE]
        ELSE locals @@ [pc |-> "list_devices"]

\* one command of the call, with its exit code
Cmd(name, rc) == [cmd |-> name, rc |-> rc]

\* the return value after set_device_address for a device found in the list
ResultAfterSetExisting(ok) == TRUE

\* the return value after set_device_address for a device just added
ResultAfterSetNew(ok) == TRUE

\* the branch taken after list_devices
AfterListDevices(device_id, existing_devices) ==
    IF InList(device_id, existing_devices) THEN "set_address_existing" ELSE "add_device"

\* line 146-147: existing_devices = syncthing.list_devices(); device_id in it?
PairListDevices(c) ==
    /\ frame[c].pc = "list_devices"
    /\ \E rc \in ExitCodes :
        LET f == frame[c]
            existing_devices == list_devices(rc, devices)
        IN  frame' = [frame EXCEPT ![c] =
                [f EXCEPT !.pc = AfterListDevices(f.device_id, existing_devices),
                          !.cmds = Append(@, Cmd("list_devices", rc))]]
    /\ UNCHANGED <<devices, folders, devices0, folders0, probes, aborted, statusVars, prereq, history>>

\* lines 148-150: the device is configured: just update the address
PairSetAddressExisting(c) ==
    /\ frame[c].pc = "set_address_existing"
    /\ LET f == frame[c]
           address == TcpAddress(f.ip, f.port)
       IN  \E rc \in SetAddressExitCodes(devices, f.device_id) :
            /\ devices' = IF rc = 0 THEN DaemonSetAddress(devices, f.device_id, address)
                          ELSE devices
            /\ frame' = [frame EXCEPT ![c] =
                    [pc |-> "return", result |-> ResultAfterSetExisting(rc = 0)]
                    @@ [f EXCEPT !.cmds = Append(@, Cmd("set_device_address", rc))]]
    /\ UNCHANGED <<folders, devices0, folders0, probes, aborted, statusVars, prereq, history>>

\* a call that goes on to the address when add_device has failed
AfterAddDevice_IgnoreFailure(ok) == [pc |-> "set_address_new"]

\* lines 153-154: `if not syncthing.add_device(...): return False`
AfterAddDevice(ok) ==
    IF ok THEN [pc |-> "set_address_new"] ELSE [pc |-> "return", result |-> FALSE]

\* lines 152-154: syncthing.add_device(device_id, hostname)
PairAddDevice(c) ==
    /\ frame[c].pc = "add_device"
    /\ LET f == frame[c]
           name == IF Falsy(f.hostname) THEN "" ELSE f.hostname
       IN  \E rc \in ExitCodes :
            /\ IF rc = 0
               THEN devices' \in DaemonAddDevice(devices, f.device_id, name)
               ELSE devices' = devices
            /\ frame' = [frame EXCEPT ![c] =
                    AfterAddDevice(rc = 0)
                    @@ [f EXCEPT !.cmds = Append(@, Cmd("add_device", rc))]]
    /\ UNCHANGED <<folders, devices0, folders0, probes, aborted, statusVars, prereq, history>>

\* lines 156-159: set the Tailscale address of the device just added
PairSetAddressNew(c) ==
    /\ frame[c].pc = "set_address_new"
    /\ LET f == frame[c]
           address == TcpAddress(f.ip, f.port)
       IN  \E rc \in SetAddressExitCodes(devices, f.device_id) :
            /\ devices' = IF rc = 0 THEN DaemonSetAddress(devices, f.device_id, address)
                          ELSE devices
            /\ frame' = [frame EXCEPT ![c] =
                    [pc |-> "return", result |-> ResultAfterSetNew(rc = 0)]
                    @@ [f EXCEPT !.cmds = Append(@, Cmd("set_device_address", rc))]]
    /\ UNCHANGED <<folders, devices0, folders0, probes, aborted, statusVars, prereq, history>>

\* what the call leaves behind when it returns
Returned(f, devs) ==
    [peer_info |-> f.peer_info, result |-> f.result, cmds |-> f.cmds, devices |-> devs]

\* a direct call of auto_pair_with_peer(peer_info), one call at a time
CallPair(c, peer_info) ==
    /\ frame[c].pc = "idle"
    /\ Len(history) < MaxCalls
    /\ frame' = [frame EXCEPT ![c] = EnterPair(peer_info)]
    /\ UNCHANGED <<devices, folders, devices0, folders0, probes, aborted, statusVars, prereq, history>>

\* the call returns to its caller
ReturnPair(c) ==
    /\ frame[c].pc = "return"
    /\ history' = Append(history, Returned(frame[c], devices))
    /\ frame' = [frame EXCEPT ![c] = IdleFrame]
    /\ UNCHANGED <<devices, folders, devices0, folders0, probes, aborted, statusVars, prereq>>

(* ------------------------ cli.py: the pair command --------------------- *)

VARIABLES
    rpc,                \* where the pair command is
    peers,              \* tailscale.get_online_peers()
    requests,           \* the IP of every HTTP GET the run has made, in order
    results,            \* the DiscoveryResult of every probe made (`result`, in turn)
    discovered,         \* peer_info of every peer probed with SUCCESS
    failed_peers,       \* (peer, result) of every other peer probed
    selected,           \* the peer_info chosen for pairing
    paired_device_ids,  \* device IDs whose auto_pair_with_peer returned True
    scratch_folders,    \* the listed folder IDs that start with "scratch-"
    fi,                 \* position in scratch_folders
    di,                 \* position in paired_device_ids
    folderLog,          \* exit codes of the list_folders calls made
    linkLog,            \* add_device_to_folder calls made: folder, device, exit code
    linked              \* per finished link step: the commands made and the folders left

daemonVars == <<devices, folders, devices0, folders0>>

callVars == <<frame, history>>

probeVars == <<peers, requests, results, discovered, failed_peers>>

linkVars == <<scratch_folders, fi, di, folderLog, linkLog, linked>>

runVars == <<rpc, probeVars, selected, paired_device_ids, linkVars>>

vars == <<daemonVars, probes, prereq, aborted, statusVars, callVars, runVars>>

\* "scratch-", the prefix of the folder IDs scratch-sync creates
ManagedPrefix == <<"s", "c", "r", "a", "t", "c", "h", "-">>

\* the prefix test without the dash
IsScratchFolder_NoDash(f) == StartsWith(f, SubSeq(ManagedPrefix, 1, Len(ManagedPrefix) - 1))

\* line 475: f.startswith("scratch-")
IsScratchFolder(f) == StartsWith(f, ManagedPrefix)

\* folder IDs of the daemon: two managed ones and one that is not ("scratchpad")
FolderA == ManagedPrefix \o <<"a">>
FolderB == ManagedPrefix \o <<"b">>
FolderPad == <<"s", "c", "r", "a", "t", "c", "h", "p", "a", "d">>

PeerIp(i) ==
    CASE i = 1 -> "100.64.0.1" [] i = 2 -> "100.64.0.2" [] i = 3 -> "100.64.0.3"
      [] OTHER -> "100.64.0.4"

PeerHost(i) ==
    CASE i = 1 -> "alpha" [] i = 2 -> "beta" [] i = 3 -> "gamma" [] OTHER -> "delta"

\* TailscalePeer(hostname, tailscale_ip, os, online=True, node_id)
TailscalePeer(i) ==
    [hostname |-> PeerHost(i), tailscale_ip |-> PeerIp(i), os |-> "linux",
     online |-> TRUE, node_id |-> i]

\* the elements of s at the positions in I, in the order of s
RECURSIVE Pick(_, _)
Pick(s, I) ==
    IF s = <<>> THEN <<>>
    ELSE LET rest == Pick(Tail(s), {i - 1 : i \in I \ {1}})
         IN  IF 1 \in I THEN <<Head(s)>> \o rest ELSE rest

\* what questionary.checkbox(...).ask() can answer: the checked values, in order
Answers(choices) == {Pick(choices, I) : I \in SUBSET (1..Len(choices))}

\* what the prerequisite checks can meet on a host: the tailscale binary
\* (find_tailscale), a tailscale that answers `tailscale status`
\* (is_tailscale_running), the syncthing binary (find_syncthing)
Hosts ==
    {h \in SUBSET {"tailscale", "tailscale_running", "syncthing"} :
        "tailscale_running" \in h => "tailscale" \in h}

\* cli.py lines 46-74: require_tailscale() and require_syncthing() return, or
\* print what is missing and sys.exit(1)
RequirePasses(host) ==
    IF "tailscale" \notin host THEN FALSE
    ELSE IF "tailscale_running" \notin host THEN FALSE
    ELSE "syncthing" \in host

\* lines 376-377: require_tailscale(); require_syncthing()
Require ==
    /\ rpc = "start"
    /\ \E host \in Hosts :
        /\ prereq' = host
        /\ rpc' = IF RequirePasses(host) THEN "get_online_peers" ELSE "exit_1"
    /\ UNCHANGED <<daemonVars, probes, aborted, statusVars, callVars, probeVars, selected, paired_device_ids,
                   linkVars>>

\* the dict d without key k
Without(d, k) == [x \in DOMAIN d \ {k} |-> d[x]]

\* an entry of the "Peer" map of `tailscale status --json`
PeerEntry(i) ==
    [HostName |-> PeerHost(i), TailscaleIPs |-> <<PeerIp(i)>>, OS |-> "linux",
     Online |-> TRUE, ID |-> i]

\* a status document: "Peer" is absent, null, or a map whose values are `entries`
StatusDocument(peer, entries) == [kind |-> "json", peer |-> peer, entries |-> entries]

\* the ways the last peer of the map can differ from an online peer
LastEntries(n) ==
    { [PeerEntry(n) EXCEPT !.Online = FALSE],
      Without(PeerEntry(n), "Online"),
      [PeerEntry(n) EXCEPT !.TailscaleIPs = <<>>],
      [PeerEntry(n) EXCEPT !.TailscaleIPs = <<>>, !.Online = FALSE] }

\* what subprocess.run(["tailscale", "status", "--json"]) can give: no binary,
\* a non-zero exit, output that is not JSON, or a status document
StatusOutcomes ==
    { [kind |-> "FileNotFoundError"], [kind |-> "exit"], [kind |-> "JSONDecodeError"],
      StatusDocument("absent", <<>>), StatusDocument("null", <<>>) }
    \cup {StatusDocument("map", [i \in 1..n |-> PeerEntry(i)]) : n \in 0..MaxPeers}
    \cup UNION {
            {StatusDocument("map", [i \in 1..n |-> IF i < n THEN PeerEntry(i) ELSE last]) :
                last \in LastEntries(n)} : n \in 1..MaxPeers}

\* peer.get("Online")
IsOnline(peer) == Get(peer, "Online", FALSE)

\* what get_online_peers leaves with: a list, or an exception
Returns(peer_list) == [raised |-> NoneStr, peers |-> peer_list]

Raises(exception) == [raised |-> exception, peers |-> <<>>]

\* tailscale.py lines 130-159: get_online_peers(). Only FileNotFoundError and
\* JSONDecodeError are caught; None has no .values() and an empty list no [0].
get_online_peers(outcome) ==
    IF outcome.kind \in {"FileNotFoundError", "JSONDecodeError", "exit"} THEN Returns(<<>>)
    ELSE IF outcome.peer = "null" THEN Raises("AttributeError")
    ELSE LET online == SelectSeq(outcome.entries, IsOnline)
         IN  IF \E i \in 1..Len(online) : Get(online[i], "TailscaleIPs", <<NoneStr>>) = <<>>
             THEN Raises("IndexError")
             ELSE Returns([i \in 1..Len(online) |->
                            [hostname |-> Get(online[i], "HostName", "unknown"),
                             tailscale_ip |-> Get(online[i], "TailscaleIPs", <<NoneStr>>)[1],
                             os |-> Get(online[i], "OS", "unknown"),
                             online |-> TRUE,
                             node_id |-> Get(online[i], "ID", NoneStr)]])

\* lines 383-386: peers = tailscale.get_online_peers(); return if there is
\* none. An exception that leaves get_online_peers leaves the command too.
GetOnlinePeers ==
    /\ rpc = "get_online_peers"
    /\ \E outcome \in StatusOutcomes :
        LET got == get_online_peers(outcome)
        IN  /\ peers' = got.peers
            /\ rpc' = IF got.raised # NoneStr THEN "raised"
                      ELSE IF got.peers = <<>> THEN "return_no_peers" ELSE "probe"
    /\ UNCHANGED <<daemonVars, probes, aborted, statusVars, prereq, callVars, requests, results, discovered,
                   failed_peers, selected, paired_device_ids, linkVars>>

\* every peer that answered HTTP at all filed as discovered
IsDiscovered_AnyAnswer(r) == r.status \in {SUCCESS, NO_SYNCTHING_HEADER, HTTP_ERROR}

\* lines 398-410: where the loop puts the result of one probe
IsDiscovered(r) == r.status = SUCCESS

\* a loop that goes back to a peer whose probe failed
NextPeer_RetryFailed(found, failed) == Len(found) + 1

\* line 394: `for peer in peers`: the peer the loop is at, given what it filed
NextPeer(found, failed) == Len(found) + Len(failed) + 1

\* lines 394-417: probe the next peer and file the result; after the last peer,
\* return if nothing was discovered
ProbePeer ==
    /\ rpc = "probe"
    /\ LET i == NextPeer(discovered, failed_peers)
           peer == peers[i]
       IN  \E resp \in Responses :
            LET r == discover_syncthing_peer_detailed(peer.tailscale_ip, resp)
            IN  /\ requests' = Append(requests, peer.tailscale_ip)
                /\ results' = Append(results, r)
                /\ IF IsDiscovered(r)
                   THEN /\ discovered' = Append(discovered,
                                ("tailscale_hostname" :> peer.hostname) @@ r.peer_info)
                        /\ failed_peers' = failed_peers
                   ELSE /\ discovered' = discovered
                        /\ failed_peers' = Append(failed_peers, <<peer, r>>)
                /\ rpc' = IF i < Len(peers) THEN "probe"
                          ELSE IF discovered' = <<>> THEN "return_none_discovered"
                          ELSE "select"
    /\ UNCHANGED <<daemonVars, probes, aborted, statusVars, prereq, callVars, peers, selected, paired_device_ids,
                   linkVars>>

\* lines 399-410: what the loop prints behind "Checking <host>..." for a result
ProbeLabel(r) ==
    IF r.status = SUCCESS THEN "found!"
    ELSE IF r.status = CONNECTION_REFUSED THEN "not listening"
    ELSE IF r.status = TIMEOUT THEN "timeout"
    ELSE "no Syncthing"

\* a categorisation that knows refusals only
Category_TimeoutAsOther(r) ==
    IF r.status = CONNECTION_REFUSED THEN "refused" ELSE "other"

\* lines 321-327: the list a failed probe is put on
Category(r) ==
    IF r.status = CONNECTION_REFUSED THEN "refused"
    ELSE IF r.status = TIMEOUT THEN "timeouts"
    ELSE "other"

\* the hostnames of the failed peers put on the list `category`, in order
Categorized(failed, category) ==
    LET OnList(x) == Category(x[2]) = category
        on_list == SelectSeq(failed, OnList)
    IN  [j \in 1..Len(on_list) |-> on_list[j][1].hostname]

\* nothing printed under "Troubleshooting:"
NoTroubleshooting == [not_listening |-> <<>>, timeout |-> <<>>, generic |-> FALSE]

\* lines 314-359: _print_discovery_troubleshooting(failed_peers). The hosts
\* named under "Not listening on N peer(s)" and under "Timeout on N peer(s)",
\* each section followed by its tips when it has a host, and whether the two
\* generic tips are printed: only when there is neither a refusal nor a timeout.
print_discovery_troubleshooting(failed) ==
    LET refused == Categorized(failed, "refused")
        timeouts == Categorized(failed, "timeouts")
        other == Categorized(failed, "other")
    IN  [not_listening |-> refused,
         timeout |-> timeouts,
         generic |-> other # <<>> /\ refused = <<>> /\ timeouts = <<>>]

\* lines 412-417: the troubleshooting the run has printed: it is printed when
\* the loop ends with nothing discovered, and at no other place
Troubleshooting ==
    IF rpc = "return_none_discovered"
    THEN print_discovery_troubleshooting(failed_peers)
    ELSE NoTroubleshooting

\* lines 412-420: the line on the discovered peers printed after the loop
DiscoveredLine(found) ==
    IF found = <<>> THEN <<"No Syncthing peers discovered.">>
    ELSE <<"Discovered ", Len(found), " Syncthing peer(s):">>

\* a prompt whose cancellation counts as taking every discovered peer
AfterAsk_CancelTakesAll(cancelled, answer, found) ==
    IF cancelled THEN [selected |-> found, rpc |-> "pair"]
    ELSE IF answer = <<>> THEN [selected |-> answer, rpc |-> "return_none_selected"]
    ELSE [selected |-> answer, rpc |-> "pair"]

\* lines 453-460: ask() returned None (cancelled) or the checked values: the
\* command returns on None ("Cancelled") and on [] ("No devices selected")
AfterAsk(cancelled, answer, found) ==
    IF cancelled THEN [selected |-> <<>>, rpc |-> "return_cancelled"]
    ELSE IF answer = <<>> THEN [selected |-> answer, rpc |-> "return_none_selected"]
    ELSE [selected |-> answer, rpc |-> "pair"]

\* lines 428-460: --yes takes every discovered peer; otherwise the operator
\* answers the checkbox, or cancels it (ask() returns None)
Select ==
    /\ rpc = "select"
    /\ \E yes \in BOOLEAN :
        IF yes THEN
            /\ selected' = discovered
            /\ rpc' = "pair"
            /\ aborted' = FALSE
        ELSE
            \E cancelled \in BOOLEAN :
                \E answer \in (IF cancelled THEN {<<>>} ELSE Answers(discovered)) :
                    LET after == AfterAsk(cancelled, answer, discovered)
                    IN  /\ selected' = after.selected
                        /\ rpc' = after.rpc
                        /\ aborted' = cancelled
    /\ UNCHANGED <<daemonVars, probes, statusVars, prereq, callVars, probeVars,
                   paired_device_ids, linkVars>>

\* line 466: the call discovery.auto_pair_with_peer(info) for the next selected peer
PairNext ==
    /\ rpc = "pair"
    /\ frame[1].pc = "idle"
    /\ Len(history) < Len(selected)
    /\ frame' = [frame EXCEPT ![1] = EnterPair(selected[Len(history) + 1])]
    /\ UNCHANGED <<daemonVars, probes, aborted, statusVars, prereq, history, runVars>>

\* the link step entered whatever paired
LinkRuns_Always(paired) == TRUE

\* line 473: whether the link step runs
LinkRuns(paired) == paired # <<>>

\* the device recorded whatever the call returned
PairedAfter_Always(paired, peer_info, ok) ==
    Append(paired, Get(peer_info, "syncthing_device_id", NoneStr))

\* lines 466-468: paired_device_ids after a call that returned ok for peer_info
PairedAfter(paired, peer_info, ok) ==
    IF ok THEN Append(paired, Get(peer_info, "syncthing_device_id", NoneStr)) ELSE paired

\* the loop left at the first call that returns False
AfterPair_StopOnFailure(done, total, paired, ok) ==
    IF ok /\ done < total THEN "pair"
    ELSE IF LinkRuns(paired) THEN "list_folders"
    ELSE "done"

\* lines 464-473: where the command goes after the call for selected peer number
\* `done` returned ok: the next selected peer, else the link step if any peer paired
AfterPair(done, total, paired, ok) ==
    IF done < total THEN "pair"
    ELSE IF LinkRuns(paired) THEN "list_folders"
    ELSE "done"

\* lines 466-473: the call returned: record the device when it paired and go on
PairReturned ==
    /\ rpc = "pair"
    /\ frame[1].pc = "return"
    /\ LET f == frame[1]
           paired == PairedAfter(paired_device_ids, f.peer_info, f.result)
       IN  /\ history' = Append(history, Returned(f, devices))
           /\ paired_device_ids' = paired
           /\ rpc' = AfterPair(Len(history'), Len(selected), paired, f.result)
    /\ frame' = [frame EXCEPT ![1] = IdleFrame]
    /\ UNCHANGED <<daemonVars, probes, aborted, statusVars, prereq, probeVars, selected, linkVars>>

\* what a finished link step leaves on record
Linked(log, flog, flds) == [cmds |-> log, listed |-> flog, folders |-> flds]

\* lines 474-477: folders = syncthing.list_folders(), narrowed to the managed ones
ListFolders ==
    /\ rpc = "list_folders"
    /\ \E rc \in ExitCodes :
        /\ scratch_folders' = SelectSeq(list_folders(rc, folders), IsScratchFolder)
        /\ folderLog' = Append(folderLog, rc)
        /\ IF scratch_folders' = <<>>
           THEN /\ rpc' = "done"
                /\ linked' = Append(linked, Linked(linkLog, folderLog', folders))
           ELSE /\ rpc' = "link"
                /\ linked' = linked
    /\ fi' = 1
    /\ di' = 1
    /\ UNCHANGED <<daemonVars, probes, aborted, statusVars, prereq, callVars, probeVars, selected,
                   paired_device_ids, linkLog>>

\* the two loops left after the first folder
AddDeviceToFolder_FirstFolderOnly ==
    /\ rpc = "link"
    /\ LET folder_id == scratch_folders[fi]
           device_id == paired_device_ids[di]
       IN  IF ~Falsy(device_id) THEN
               \E rc \in AddFolderDeviceExitCodes(folders, folder_id) :
                   /\ folders' = IF rc = 0
                                 THEN DaemonAddFolderDevice(folders, devices, folder_id, device_id)
                                 ELSE folders
                   /\ linkLog' = Append(linkLog,
                            [folder |-> folder_id, device |-> device_id, rc |-> rc])
           ELSE UNCHANGED <<folders, linkLog>>
    /\ IF di < Len(paired_device_ids)
       THEN /\ di' = di + 1
            /\ UNCHANGED <<fi, rpc, linked>>
       ELSE /\ di' = 1
            /\ fi' = fi + 1
            /\ rpc' = "done"
            /\ linked' = Append(linked, Linked(linkLog', folderLog, folders'))
    /\ UNCHANGED <<devices, devices0, folders0, probes, aborted, statusVars, prereq, callVars, probeVars, selected,
                   paired_device_ids, scratch_folders, folderLog>>

\* lines 480-484: one round of the two loops: add paired_device_ids[di] to
\* scratch_folders[fi] (the exit code of the command is not looked at)
AddDeviceToFolder ==
    /\ rpc = "link"
    /\ LET folder_id == scratch_folders[fi]
           device_id == paired_device_ids[di]
       IN  IF ~Falsy(device_id) THEN
               \E rc \in AddFolderDeviceExitCodes(folders, folder_id) :
                   /\ folders' = IF rc = 0
                                 THEN DaemonAddFolderDevice(folders, devices, folder_id, device_id)
                                 ELSE folders
                   /\ linkLog' = Append(linkLog,
                            [folder |-> folder_id, device |-> device_id, rc |-> rc])
           ELSE UNCHANGED <<folders, linkLog>>
    /\ IF di < Len(paired_device_ids)
       THEN /\ di' = di + 1
            /\ UNCHANGED <<fi, rpc, linked>>
       ELSE /\ di' = 1
            /\ fi' = fi + 1
            /\ IF fi < Len(scratch_folders)
               THEN UNCHANGED <<rpc, linked>>
               ELSE /\ rpc' = "done"
                    /\ linked' = Append(linked, Linked(linkLog', folderLog, folders'))
    /\ UNCHANGED <<devices, devices0, folders0, probes, aborted, statusVars, prereq, callVars, probeVars, selected,
                   paired_device_ids, scratch_folders, folderLog>>

(* ---------------------- the daemon before the command ------------------ *)

\* device IDs the peers can announce
DevA == "DEV-AAA"
DevB == "dev-bbb"

\* a device paired by an earlier run, at the address it had then
OldDevice ==
    [deviceID |-> DevA, name |-> "alpha", addresses |-> <<TcpAddress("100.64.0.9", SyncthingPort)>>]

InitDevices == {<<>>, <<OldDevice>>}

\* folder configurations over the configured devices: no managed folder, or two
InitFolders(devs) ==
    LET shares == {<<>>} \cup {<<devs[i].deviceID>> : i \in 1..Len(devs)}
    IN  {<<[id |-> FolderPad, devices |-> p]>> : p \in shares}
        \cup {<<[id |-> FolderA, devices |-> a], [id |-> FolderPad, devices |-> p],
                [id |-> FolderB, devices |-> b]>> : a \in shares, p \in shares, b \in {<<>>}}

InitDaemon ==
    /\ devices0 \in InitDevices
    /\ folders0 \in InitFolders(devices0)
    /\ devices = devices0
    /\ folders = folders0

InitCall ==
    /\ frame = [c \in Callers |-> IdleFrame]
    /\ history = <<>>

InitRun ==
    /\ rpc = "start"
    /\ prereq = {}
    /\ probes = <<>>
    /\ aborted = FALSE
    /\ InitStatusIdle
    /\ peers = <<>>
    /\ requests = <<>>
    /\ results = <<>>
    /\ discovered = <<>>
    /\ failed_peers = <<>>
    /\ selected = <<>>
    /\ paired_device_ids = <<>>
    /\ scratch_folders = <<>>
    /\ fi = 1
    /\ di = 1
    /\ folderLog = <<>>
    /\ linkLog = <<>>
    /\ linked = <<>>

Init == InitDaemon /\ InitCall /\ InitRun

PairCallStep ==
    \E c \in Callers :
        \/ PairListDevices(c) /\ UNCHANGED runVars
        \/ PairSetAddressExisting(c) /\ UNCHANGED runVars
        \/ PairAddDevice(c) /\ UNCHANGED runVars
        \/ PairSetAddressNew(c) /\ UNCHANGED runVars

Next ==
    \/ Require
    \/ GetOnlinePeers
    \/ ProbePeer
    \/ Select
    \/ PairNext
    \/ PairCallStep
    \/ PairReturned
    \/ ListFolders
    \/ AddDeviceToFolder

\* the pair command, run once against a daemon that already has a configuration
Spec == Init /\ [][Next]_vars

\* the command is one thread of control and every step of it (a subprocess, an
\* HTTP request with a timeout, a prompt that is answered) comes to an end
FairSpec == Spec /\ WF_vars(Next)

(* ------------- auto_pair_with_peer called directly, call after call ----- *)

PeerInfo(device_id, ip, hostname, port) ==
    [hostname |-> NoneStr, tailscale_ip |-> ip, syncthing_device_id |-> device_id,
     syncthing_version |-> "unknown", syncthing_port |-> port,
     tailscale_hostname |-> hostname]

\* arguments of the direct calls: complete identities (one device at two
\* addresses, another device without a port entry) and incomplete ones
PeerInfos ==
    { PeerInfo(DevA, PeerIp(1), PeerHost(1), SyncthingPort),
      PeerInfo(DevA, PeerIp(2), PeerHost(1), SyncthingPort + 1),
      Without(PeerInfo(DevB, PeerIp(2), PeerHost(2), SyncthingPort), "syncthing_port"),
      Without(PeerInfo(DevA, PeerIp(1), PeerHost(1), SyncthingPort), "syncthing_device_id"),
      PeerInfo(NoneStr, PeerIp(1), PeerHost(1), SyncthingPort),
      PeerInfo("", PeerIp(1), PeerHost(1), SyncthingPort),
      Without(PeerInfo(DevA, PeerIp(1), PeerHost(1), SyncthingPort), "tailscale_ip"),
      PeerInfo(DevA, NoneStr, PeerHost(1), SyncthingPort),
      PeerInfo(DevB, "", NoneStr, SyncthingPort) }

NextPair ==
    \E c \in {1} :
        \/ \E peer_info \in PeerInfos : CallPair(c, peer_info) /\ UNCHANGED runVars
        \/ PairListDevices(c) /\ UNCHANGED runVars
        \/ PairSetAddressExisting(c) /\ UNCHANGED runVars
        \/ PairAddDevice(c) /\ UNCHANGED runVars
        \/ PairSetAddressNew(c) /\ UNCHANGED runVars
        \/ ReturnPair(c) /\ UNCHANGED runVars

\* successive direct calls of auto_pair_with_peer against the daemon
SpecPair == Init /\ [][NextPair]_vars

(* ------- auto_pair_with_peer called by two callers at the same time ----- *)

\* the two calls are for one device, not configured so far, seen at two addresses
RaceArg(c) ==
    IF c = 1 THEN PeerInfo(DevB, PeerIp(1), PeerHost(2), SyncthingPort)
    ELSE PeerInfo(DevB, PeerIp(2), PeerHost(2), SyncthingPort + 1)

\* the caller has not made its call yet
NotYetCalled(c) ==
    /\ frame[c].pc = "idle"
    /\ \A j \in 1..Len(history) : history[j].peer_info # RaceArg(c)

\* each caller makes one call; the commands of the two calls reach the daemon
\* one at a time, in any order
NextRace ==
    \E c \in Callers :
        \/ NotYetCalled(c) /\ CallPair(c, RaceArg(c)) /\ UNCHANGED runVars
        \/ PairListDevices(c) /\ UNCHANGED runVars
        \/ PairSetAddressExisting(c) /\ UNCHANGED runVars
        \/ PairAddDevice(c) /\ UNCHANGED runVars
        \/ PairSetAddressNew(c) /\ UNCHANGED runVars
        \/ ReturnPair(c) /\ UNCHANGED runVars

SpecRace == Init /\ [][NextRace]_vars

(* ---------------- the link step, executed again and again --------------- *)

OtherDevice ==
    [deviceID |-> DevB, name |-> "beta", addresses |-> <<TcpAddress(PeerIp(2), SyncthingPort)>>]

\* the link step is entered with devices that paired, hence are configured
InitLink ==
    /\ devices0 \in {<<OldDevice>>, <<OldDevice, OtherDevice>>}
    /\ folders0 \in InitFolders(devices0)
    /\ devices = devices0
    /\ folders = folders0
    /\ InitCall
    /\ rpc = "list_folders"
    /\ prereq = {}
    /\ probes = <<>>
    /\ aborted = FALSE
    /\ InitStatusIdle
    /\ peers = <<>>
    /\ requests = <<>>
    /\ results = <<>>
    /\ discovered = <<>>
    /\ failed_peers = <<>>
    /\ selected = <<>>
    /\ paired_device_ids \in
            {ids \in UNION {[1..n -> Range(DeviceIds(devices0))] : n \in 1..2} : TRUE}
    /\ scratch_folders = <<>>
    /\ fi = 1
    /\ di = 1
    /\ folderLog = <<>>
    /\ linkLog = <<>>
    /\ linked = <<>>

\* the pair command is run again and reaches the link step with the same devices
Relink ==
    /\ rpc = "done"
    /\ Len(linked) < MaxLinkRuns
    /\ rpc' = "list_folders"
    /\ folderLog' = <<>>
    /\ linkLog' = <<>>
    /\ UNCHANGED <<daemonVars, probes, aborted, statusVars, prereq, callVars, probeVars, selected, paired_device_ids,
                   scratch_folders, fi, di, linked>>

NextLink ==
    \/ ListFolders
    \/ AddDeviceToFolder
    \/ Relink

SpecLink == InitLink /\ [][NextLink]_vars

(* ------------------- the probe called directly, call after call -------- *)

\* the rest of the program stands still while the probe is called
InitProbe ==
    /\ devices0 = <<>>
    /\ folders0 = <<[id |-> FolderPad, devices |-> <<>>]>>
    /\ devices = devices0
    /\ folders = folders0
    /\ InitCall
    /\ InitRun

NextProbe ==
    \E ip \in ProbeIps, timeout \in Timeouts, net \in Networks :
        CallProbe(ip, timeout, net)
            /\ UNCHANGED <<daemonVars, prereq, aborted, statusVars, callVars, runVars>>

SpecProbe == InitProbe /\ [][NextProbe]_vars

(* ------------- the probing loop over the peers of one snapshot --------- *)

\* most peers in the snapshot the loop goes over
MaxProbed == 3

\* the command has passed its prerequisite checks and get_online_peers()
\* has returned a list that is not empty
InitDiscover ==
    /\ devices0 = <<>>
    /\ folders0 = <<[id |-> FolderPad, devices |-> <<>>]>>
    /\ devices = devices0
    /\ folders = folders0
    /\ InitCall
    /\ prereq = {"tailscale", "tailscale_running", "syncthing"}
    /\ probes = <<>>
    /\ aborted = FALSE
    /\ InitStatusIdle
    /\ rpc = "probe"
    /\ peers \in {[i \in 1..n |-> TailscalePeer(i)] : n \in 1..MaxProbed}
    /\ requests = <<>>
    /\ results = <<>>
    /\ discovered = <<>>
    /\ failed_peers = <<>>
    /\ selected = <<>>
    /\ paired_device_ids = <<>>
    /\ scratch_folders = <<>>
    /\ fi = 1
    /\ di = 1
    /\ folderLog = <<>>
    /\ linkLog = <<>>
    /\ linked = <<>>

NextDiscover == ProbePeer

SpecDiscover == InitDiscover /\ [][NextDiscover]_vars

(* --------------------------- cli.py: _format_time ----------------------- *)

\* most calls of _format_time looked at
MaxFormats == 2

\* timedelta keeps 0 <= seconds < 86400 beside its days
SecondsPerDay == 86400

\* a point in time: whole days since 1970-01-01T00:00:00Z, seconds into that day
Instant(days, seconds) == [days |-> days, seconds |-> seconds]

\* a timestamp text split after its four-digit year and before its UTC offset,
\* with what datetime.fromisoformat makes of it: `parses` is false for a text
\* that is no ISO 8601 time, else `at` is the instant the text denotes
IsoTime(text, parses, at) == [text |-> text, parses |-> parses, at |-> at]

\* the instant the daemon reports for a device it has never seen
EpochZero == Instant(0, 0)

\* the empty string
EmptyTime == IsoTime(<<>>, FALSE, EpochZero)

\* texts of the instant 1970-01-01T00:00:00Z, in UTC and in other offsets
EpochTimes ==
    { IsoTime(<<"1970", "-01-01T00:00:00", "Z">>, TRUE, EpochZero),
      IsoTime(<<"1970", "-01-01T00:00:00", "+00:00">>, TRUE, EpochZero),
      IsoTime(<<"1969", "-12-31T16:00:00", "-08:00">>, TRUE, EpochZero),
      IsoTime(<<"1970", "-01-01T01:00:00", "+01:00">>, TRUE, EpochZero) }

\* what datetime.now(dt.tzinfo) can be: 2026-11-05 at 08:00:00Z and at 00:01:40Z
Clocks == {Instant(20762, 28800), Instant(20762, 100)}

\* the timestamps the function is called with: none, the epoch, the zero time
\* of the daemon's own clock type, no timestamp at all, and times of the
\* last days before the clock values
IsoTimes ==
    {EmptyTime} \cup EpochTimes \cup
    { IsoTime(<<"0001", "-01-01T00:00:00", "Z">>, TRUE, Instant(-719162, 0)),
      IsoTime(<<"never seen">>, FALSE, EpochZero),
      IsoTime(<<"2026", "-11-05T00:01:10", "Z">>, TRUE, Instant(20762, 70)),
      IsoTime(<<"2026", "-11-04T23:50:00", "Z">>, TRUE, Instant(20761, 85800)),
      IsoTime(<<"2026", "-11-04T20:00:00", "Z">>, TRUE, Instant(20761, 72000)),
      IsoTime(<<"2026", "-11-03T06:00:00", "-02:00">>, TRUE, Instant(20760, 28800)) }

\* line 520: diff = now - dt, a timedelta
TimeDelta(now, dt) ==
    LET seconds == now.seconds - dt.seconds
    IN  IF seconds < 0
        THEN [days |-> now.days - dt.days - 1, seconds |-> seconds + SecondsPerDay]
        ELSE [days |-> now.days - dt.days, seconds |-> seconds]

\* line 531: iso_time[:19] if len(iso_time) > 19 else iso_time (the year and
\* the date-and-time parts of a split text are 19 characters)
First19(text) == IF Len(text) > 2 THEN SubSeq(text, 1, 2) ELSE text

\* lines 512-531: _format_time(iso_time), called when the clock shows `now`
format_time(iso_time, now) ==
    IF iso_time.text = <<>>
       \/ StartsWith(iso_time.text, <<"1969">>)
       \/ StartsWith(iso_time.text, <<"0001">>)
    THEN <<"never">>
    ELSE IF ~iso_time.parses THEN First19(iso_time.text)
    ELSE LET diff == TimeDelta(now, iso_time.at)
         IN  IF diff.days > 0 THEN <<diff.days, "d ago">>
             ELSE IF diff.seconds > 3600 THEN <<diff.seconds \div 3600, "h ago">>
             ELSE IF diff.seconds > 60 THEN <<diff.seconds \div 60, "m ago">>
             ELSE <<"just now">>

\* the statistics of a device: with a "lastSeen" entry, or without one
DeviceStats(iso_time) == [lastSeen |-> iso_time]

NoDeviceStats == [k \in {} |-> EmptyTime]

\* line 764: stats.get("lastSeen", "")
LastSeen(stats) == Get(stats, "lastSeen", EmptyTime)

\* line 764: last_seen = _format_time(stats.get("lastSeen", ""))
CallFormatTime(missing, iso_time, now) ==
    /\ Len(formatted) < MaxFormats
    /\ LET stats == IF missing THEN NoDeviceStats ELSE DeviceStats(iso_time)
       IN  formatted' = Append(formatted,
                [missing |-> missing, iso_time |-> LastSeen(stats), now |-> now,
                 result |-> format_time(LastSeen(stats), now)])
    /\ UNCHANGED <<daemonVars, probes, prereq, aborted, st, callVars, runVars>>

\* the rest of the program stands still while _format_time or the status
\* command is called
InitFormat ==
    /\ devices0 = <<>>
    /\ folders0 = <<[id |-> FolderPad, devices |-> <<>>]>>
    /\ devices = devices0
    /\ folders = folders0
    /\ InitCall
    /\ InitRun

NextFormat ==
    \E missing \in BOOLEAN, now \in Clocks :
        \E iso_time \in (IF missing THEN {EmptyTime} ELSE IsoTimes) :
            CallFormatTime(missing, iso_time, now)

SpecFormat == InitFormat /\ [][NextFormat]_vars

(* ------------------------------ cli.py: status -------------------------- *)

\* what the status command reads from the daemon: six REST endpoints (through
\* api_get) and the output of `syncthing cli show connections`
Sources ==
    {"system_status", "config_devices", "config_folders", "connections",
     "device_stats", "folder_status", "pending_devices"}

\* a source answers ("ok"), fails (the command exits non-zero, the request
\* fails or is answered with another status than 200), or answers with
\* something that is not JSON
Availability == {"ok", "failed", "unparsable"}

\* the sources of a daemon that is up, at most one of them unavailable
SourceStates ==
    {[s \in Sources |-> "ok"]}
    \cup {[s \in Sources |-> IF s = u THEN a ELSE "ok"] :
            u \in Sources, a \in Availability \ {"ok"}}

\* the device ID of this device
MyId == "MY-ID00"

\* /rest/config/devices of the daemon: this device and two others
ConfigDevices ==
    << [deviceID |-> MyId, name |-> "here"],
       [deviceID |-> DevA, name |-> "alpha"],
       [deviceID |-> DevB, name |-> ""] >>

\* /rest/config/folders of the daemon
ConfigFolders ==
    << [id |-> FolderA, devices |-> <<[deviceID |-> MyId], [deviceID |-> DevA]>>],
       [id |-> FolderPad, devices |-> <<[deviceID |-> MyId]>>] >>

\* an entry of the "connections" map
Connection(connected, paused, in_bytes, out_bytes) ==
    [connected |-> connected, paused |-> paused,
     inBytesTotal |-> in_bytes, outBytesTotal |-> out_bytes]

\* the states the daemon can report for its connection to a device
ConnectionStates == {"connected", "disconnected", "paused"}

ConnectionIn(state) ==
    IF state = "connected" THEN Connection(TRUE, FALSE, 2048, 512)
    ELSE IF state = "paused" THEN Connection(FALSE, TRUE, 0, 0)
    ELSE Connection(FALSE, FALSE, 0, 0)

\* the document `syncthing cli show connections` prints: an entry per other device
ConnectionsDocument(state_a) ==
    [connections |-> (DevA :> ConnectionIn(state_a)) @@ (DevB :> ConnectionIn("disconnected"))]

\* {}
EmptyDict == <<>>

\* a value returned, or an exception raised
Returned2(value) == [raised |-> NoneStr, value |-> value]

Raised2(exception) == [raised |-> exception, value |-> EmptyDict]

\* syncthing.py lines 183-203: api_get returns the JSON of a 200 response; a
\* failed request, another status and a body response.json() cannot parse
\* all end in None (the parse sits inside the try)
ApiAnswers(availability) == availability = "ok"

\* syncthing.py lines 147-153: get_connections(): {} when the command fails;
\* json.loads of its output otherwise, outside any try
get_connections(availability, document) ==
    IF availability = "failed" THEN Returned2(EmptyDict)
    ELSE IF availability = "unparsable" THEN Raised2("JSONDecodeError")
    ELSE Returned2(document)

\* syncthing.py lines 211-213: api_get("/rest/config/devices") or []
get_config_devices(availability) ==
    IF ApiAnswers(availability) THEN ConfigDevices ELSE <<>>

\* syncthing.py lines 216-218: api_get("/rest/config/folders") or []
get_config_folders(availability) ==
    IF ApiAnswers(availability) THEN ConfigFolders ELSE <<>>

\* syncthing.py lines 206-208: api_get("/rest/stats/device") or {}
get_device_stats(availability, last_seen_a) ==
    IF ApiAnswers(availability)
    THEN (DevA :> DeviceStats(last_seen_a)) @@ (DevB :> NoDeviceStats)
    ELSE EmptyDict

\* cli.py lines 502-509: _format_bytes for the totals used here (whole units)
format_bytes(b) == IF b < 1024 THEN <<b, ".0 B">> ELSE <<b \div 1024, ".0 KB">>

\* cli.py lines 749-780: the row of the device table for one configured device
StatusDeviceRow(device, conn_info, device_stats, now) ==
    LET dev_id == Get(device, "deviceID", "")
        conn == Get(conn_info, dev_id, EmptyDict)
        in_bytes == Get(conn, "inBytesTotal", 0)
        out_bytes == Get(conn, "outBytesTotal", 0)
    IN  [name |-> PyOr(Get(device, "name", NoneStr), "unknown"),
         dev_id |-> dev_id,
         status_str |-> IF Get(conn, "connected", FALSE) THEN "[green]connected[/]"
                        ELSE IF Get(conn, "paused", FALSE) THEN "[yellow]paused[/]"
                        ELSE "[red]disconnected[/]",
         last_seen |-> format_time(LastSeen(Get(device_stats, dev_id, NoDeviceStats)), now),
         transfer |-> IF in_bytes # 0 \/ out_bytes # 0
                      THEN <<format_bytes(in_bytes), format_bytes(out_bytes)>>
                      ELSE <<"[dim]-[/]">>]

\* cli.py lines 800-834: the row of the folder table for one managed folder
StatusFolderRow(folder, folder_status_availability, config_devices, my_id) ==
    LET shared == SelectSeq(folder.devices,
                      LAMBDA sd : sd.deviceID # my_id
                                  /\ InList(sd.deviceID, DeviceIds(config_devices)))
    IN  [folder_id |-> folder.id,
         status_str |-> IF ApiAnswers(folder_status_availability)
                        THEN "[green]idle[/]" ELSE "[dim]unknown[/]",
         shared_with |->
            [k \in 1..Len(shared) |->
                LET d == CHOOSE d \in Range(config_devices) : d.deviceID = shared[k].deviceID
                IN  PyOr(Get(d, "name", NoneStr), shared[k].deviceID)]]

\* `scratch-sync status` is run on a host where syncthing is installed or not,
\* against a daemon in some state
StatusCall(installed, sources, state_a, last_seen_a, now) ==
    /\ st.pc = "idle"
    /\ st' = [pc |-> "dependencies", installed |-> installed, sources |-> sources,
              state_a |-> state_a, last_seen_a |-> last_seen_a, now |-> now,
              system_status |-> "unread", my_id |-> "",
              printed |-> {}, device_rows |-> <<>>, folder_rows |-> <<>>]
    /\ UNCHANGED <<daemonVars, probes, prereq, aborted, formatted, callVars, runVars>>

\* cli.py lines 560-694: the dependency table; exit 1 without syncthing,
\* return when is_syncthing_running() (the system status) gives nothing
StatusDependencies ==
    /\ st.pc = "dependencies"
    /\ st' = [st EXCEPT
                !.printed = @ \cup {"dependencies"},
                !.pc = IF ~st.installed THEN "exit_1"
                       ELSE IF ~ApiAnswers(st.sources["system_status"])
                       THEN "return_not_running"
                       ELSE "this_device"]
    /\ UNCHANGED <<daemonVars, probes, prereq, aborted, formatted, callVars, runVars>>

\* cli.py lines 696-725: the system status is read once more (the daemon may
\* have stopped answering since); without it the device ID comes from the
\* binary, or from nowhere
StatusThisDevice ==
    /\ st.pc = "this_device"
    /\ \E system_status \in {"ok", "failed"}, device_id \in {MyId, NoneStr} :
        /\ system_status = "ok" => device_id = MyId
        /\ st' = [st EXCEPT
                    !.system_status = system_status,
                    !.my_id = IF system_status = "ok" THEN MyId
                              ELSE PyOr(device_id, ""),
                    !.printed = @ \cup {"this_device"},
                    !.pc = "devices"]
    /\ UNCHANGED <<daemonVars, probes, prereq, aborted, formatted, callVars, runVars>>

\* cli.py lines 727-784: the paired devices, from the configured devices, the
\* connections and the device statistics
StatusDevices ==
    /\ st.pc = "devices"
    /\ LET config_devices == get_config_devices(st.sources["config_devices"])
           connections == get_connections(st.sources["connections"],
                                          ConnectionsDocument(st.state_a))
           device_stats == get_device_stats(st.sources["device_stats"], st.last_seen_a)
           other_devices == SelectSeq(config_devices, LAMBDA d : d.deviceID # st.my_id)
           conn_info == Get(connections.value, "connections", EmptyDict)
       IN  IF connections.raised # NoneStr
           THEN st' = [st EXCEPT !.pc = "raised"]
           ELSE st' = [st EXCEPT
                        !.device_rows =
                            [k \in 1..Len(other_devices) |->
                                StatusDeviceRow(other_devices[k], conn_info, device_stats,
                                                st.now)],
                        !.printed = @ \cup {"devices"},
                        !.pc = "folders"]
    /\ UNCHANGED <<daemonVars, probes, prereq, aborted, formatted, callVars, runVars>>

\* cli.py lines 786-838: the managed folders with their state
StatusFolders ==
    /\ st.pc = "folders"
    /\ LET config_folders == get_config_folders(st.sources["config_folders"])
           config_devices == get_config_devices(st.sources["config_devices"])
           scratch == SelectSeq(config_folders, LAMBDA f : IsScratchFolder(f.id))
       IN  st' = [st EXCEPT
                    !.folder_rows =
                        [k \in 1..Len(scratch) |->
                            StatusFolderRow(scratch[k], st.sources["folder_status"],
                                            config_devices, st.my_id)],
                    !.printed = @ \cup {"folders"},
                    !.pc = "pending"]
    /\ UNCHANGED <<daemonVars, probes, prereq, aborted, formatted, callVars, runVars>>

\* cli.py lines 840-847: the pending pair requests, printed when there are any
StatusPending ==
    /\ st.pc = "pending"
    /\ \E requested \in BOOLEAN :
        st' = [st EXCEPT
                !.printed = IF requested /\ ApiAnswers(st.sources["pending_devices"])
                            THEN @ \cup {"pending"} ELSE @,
                !.pc = "done"]
    /\ UNCHANGED <<daemonVars, probes, prereq, aborted, formatted, callVars, runVars>>

NextStatus ==
    \/ \E installed \in BOOLEAN, sources \in SourceStates, state_a \in ConnectionStates,
          last_seen_a \in EpochTimes, now \in Clocks :
            StatusCall(installed, sources, state_a, last_seen_a, now)
    \/ StatusDependencies
    \/ StatusThisDevice
    \/ StatusDevices
    \/ StatusFolders
    \/ StatusPending

\* one run of the status command
SpecStatus == InitFormat /\ [][NextStatus]_vars

(* ============================== properties ============================== *)

IdOf(peer_info) == Get(peer_info, "syncthing_device_id", NoneStr)

IpOf(peer_info) == Get(peer_info, "tailscale_ip", NoneStr)

PortOf(peer_info) == Get(peer_info, "syncthing_port", SyncthingPort)

\* the identity has a device_id and an overlay IP
Complete(peer_info) == ~Falsy(IdOf(peer_info)) /\ ~Falsy(IpOf(peer_info))

\* the records the configuration holds for a device ID
RecordsOf(devs, device_id) == {i \in 1..Len(devs) : devs[i].deviceID = device_id}

\* the configuration call number j started from (calls follow one another)
DevicesBefore(j) == IF j = 1 THEN devices0 ELSE history[j - 1].devices

AllExitZero(cmds) == \A k \in 1..Len(cmds) : cmds[k].rc = 0

Issued(cmds, name) == \E k \in 1..Len(cmds) : cmds[k].cmd = name

WriteFailed(cmds) ==
    \E k \in 1..Len(cmds) :
        cmds[k].cmd \in {"add_device", "set_device_address"} /\ cmds[k].rc # 0

\* C1: pair is idempotent on device_id. For two calls with the same device_id
\* (the later one possibly with another IP or port): the later call returns
\* true (at least when the earlier one did and the daemon exits 0 on every
\* command of the later one); whenever it returns true the configuration holds
\* exactly one record for the device_id and that record's address is
\* tcp://<ip>:<port> of the later call; and a call that lists the device as
\* configured issues no add-device.
C1_PairIdempotent ==
    \A i, j \in 1..Len(history) :
        (i < j /\ Complete(history[i].peer_info) /\ Complete(history[j].peer_info)
               /\ IdOf(history[i].peer_info) = IdOf(history[j].peer_info))
        => LET c == history[j]
               id == IdOf(c.peer_info)
           IN  /\ (history[i].result /\ AllExitZero(c.cmds)) => c.result
               /\ c.result =>
                    /\ Cardinality(RecordsOf(c.devices, id)) = 1
                    /\ \A r \in RecordsOf(c.devices, id) :
                           c.devices[r].addresses =
                               <<TcpAddress(IpOf(c.peer_info), PortOf(c.peer_info))>>
               /\ (c.cmds[1].rc = 0 /\ InList(id, DeviceIds(DevicesBefore(j))))
                    => ~Issued(c.cmds, "add_device")

\* C2: pair returns false whenever a configuration write of the call failed:
\* the add-device write, or the set-device-address write (for a new device or
\* for one already configured).
C2_FalseOnFailedWrite ==
    \A j \in 1..Len(history) :
        WriteFailed(history[j].cmds) => history[j].result = FALSE

\* C3: pair given an identity whose device_id or overlay IP is missing or empty
\* returns false without any read or write against the daemon: no command is
\* issued and the device list, with every address, is as it was.
C3_IncompleteIdentity ==
    /\ \A c \in Callers :
          (frame[c].pc # "idle" /\ ~Complete(frame[c].peer_info))
          => frame[c].pc = "return" /\ frame[c].result = FALSE /\ frame[c].cmds = <<>>
    /\ \A j \in 1..Len(history) :
          ~Complete(history[j].peer_info)
          => /\ history[j].result = FALSE
             /\ history[j].cmds = <<>>
             /\ history[j].devices = DevicesBefore(j)
             /\ folders = folders0

\* a call with a device_id but no overlay IP has returned false
C3_Witness ==
    \E j \in 1..Len(history) :
        /\ ~Falsy(IdOf(history[j].peer_info))
        /\ Falsy(IpOf(history[j].peer_info))
        /\ history[j].result = FALSE

\* the device IDs whose call returned true, in this run
PairedOk == {IdOf(history[j].peer_info) : j \in {k \in 1..Len(history) : history[k].result}}

\* the device IDs probed with SUCCESS in this run
SuccessIds ==
    {results[i].peer_info.syncthing_device_id :
        i \in {k \in 1..Len(results) : results[k].status = SUCCESS}}

\* the share list of the folder with this ID
ShareList(flds, folder_id) ==
    UNION {Range(flds[k].devices) : k \in {i \in 1..Len(flds) : flds[i].id = folder_id}}

\* the link step issued the command for (folder, device), with some exit code in rcs
LinkIssued(log, folder_id, device_id, rcs) ==
    \E k \in 1..Len(log) :
        log[k].folder = folder_id /\ log[k].device = device_id /\ log[k].rc \in rcs

\* the folder ID carries the managed-folder prefix "scratch-"
HasManagedPrefix(folder_id) ==
    /\ Len(folder_id) >= 8
    /\ SubSeq(folder_id, 1, 8) = <<"s", "c", "r", "a", "t", "c", "h", "-">>

ManagedIds(flds) == {flds[k].id : k \in {i \in 1..Len(flds) : HasManagedPrefix(flds[i].id)}}

LinkStepDone == rpc = "done" /\ folderLog # <<>>

NoDuplicates(seq) == \A a, b \in 1..Len(seq) : seq[a] = seq[b] => a = b

IsPrefix(p, seq) == Len(p) <= Len(seq) /\ SubSeq(seq, 1, Len(p)) = p

C7_NoLinkWithoutPair ==
    PairedOk = {} =>
        /\ folderLog = <<>>
        /\ linkLog = <<>>
        /\ rpc \notin {"list_folders", "link"}
        /\ folders = folders0

\* the run is done, every pair attempt having failed, with a managed folder
\* at hand and nothing asked of it
C7_Witness ==
    /\ rpc = "done"
    /\ Len(history) = 2
    /\ PairedOk = {}
    /\ ManagedIds(folders) # {}
    /\ folderLog = <<>>

\* C8: the device_ids handed to the link step are exactly those of the
\* selected peers whose pair returned true; a device with no successful pair
\* is never added to a folder; and every device linked was selected and was
\* discovered with status SUCCESS in the run.
C8_LinkInputIsPaired ==
    /\ Range(paired_device_ids) = PairedOk
    /\ Len(paired_device_ids) = Cardinality({k \in 1..Len(history) : history[k].result})
    /\ \A j \in 1..Len(history) : history[j].peer_info = selected[j]
    /\ Range(selected) \subseteq Range(discovered)
    /\ {IdOf(discovered[i]) : i \in 1..Len(discovered)} = SuccessIds
    /\ \A k \in 1..Len(linkLog) : linkLog[k].device \in PairedOk
    /\ \A k \in 1..Len(folders) :
          Range(folders[k].devices) \ Range(folders0[k].devices) \subseteq PairedOk

\* of two selected peers with different device_ids one paired and one did
\* not; the link step ran for the one that paired only
C8_Witness ==
    /\ rpc = "done"
    /\ Len(history) = 2
    /\ IdOf(history[1].peer_info) # IdOf(history[2].peer_info)
    /\ history[1].result /\ ~history[2].result
    /\ linkLog # <<>>
    /\ \A k \in 1..Len(linkLog) : linkLog[k].device = IdOf(history[1].peer_info)

\* the overlay IPs of the peers whose probe did not end in SUCCESS
FailedIps == {failed_peers[i][1].tailscale_ip : i \in 1..Len(failed_peers)}

\* C9: a pairing run never changes the share list of a folder whose ID does
\* not begin with "scratch-", and never pairs, records or shares with a peer
\* whose probe outcome was not SUCCESS: no pair call is made for such a peer,
\* and every device record or folder membership the run adds carries a
\* device_id that was probed with SUCCESS.
C9_OnlyManagedOnlyDiscovered ==
    /\ FolderIds(folders) = FolderIds(folders0)
    /\ \A k \in 1..Len(folders) :
          /\ ~HasManagedPrefix(folders[k].id) => folders[k] = folders0[k]
          /\ Range(folders[k].devices) \ Range(folders0[k].devices) \subseteq SuccessIds
    /\ Range(DeviceIds(devices)) \ Range(DeviceIds(devices0)) \subseteq SuccessIds
    /\ \A j \in 1..Len(history) : IpOf(history[j].peer_info) \notin FailedIps
    /\ \A c \in Callers :
          frame[c].pc # "idle" => IpOf(frame[c].peer_info) \notin FailedIps

\* one peer refused the connection, the other was discovered, paired as a new
\* device and linked into the managed folders, next to an unmanaged folder
C9_Witness ==
    /\ rpc = "done"
    /\ \E i \in 1..Len(failed_peers) : failed_peers[i][2].status = CONNECTION_REFUSED
    /\ Len(devices) > Len(devices0)
    /\ \E k \in 1..Len(folders) : ~HasManagedPrefix(folders[k].id)
    /\ \E k \in 1..Len(folders) : folders[k] # folders0[k]

\* C10: in every result of the probe, on every path (the exception paths
\* included), peer_info is present if and only if the status is SUCCESS.
C10_IdentityIffSuccess ==
    \A i \in 1..Len(results) :
        (results[i].peer_info # NonePeerInfo) <=> (results[i].status = SUCCESS)

\* a probe that succeeded and one that ended in an exception have been filed
C10_Witness ==
    /\ \E i \in 1..Len(results) :
          results[i].status = SUCCESS /\ results[i].peer_info # NonePeerInfo
    /\ \E i \in 1..Len(results) :
          results[i].status = UNKNOWN_ERROR /\ results[i].peer_info = NonePeerInfo


(* ---------------------- properties of the probe ------------------------ *)

IsSuffix(p, seq) == Len(p) <= Len(seq) /\ SubSeq(seq, Len(seq) - Len(p) + 1, Len(seq)) = p

\* the GET was answered with status code 200
Answered200(resp) == resp.kind = "response" /\ resp.status_code = 200

HasIdHeader(resp) == "X-Syncthing-Id" \in DOMAIN resp.headers

\* the connection attempt ended in the operating system's refusal error
\* (ECONNREFUSED, WSAECONNREFUSED)
IsRefusal(resp) ==
    resp.kind = "ConnectError" /\ resp.text[1] \in {"[Errno 111]", "[WinError 10061]"}

\* C11: a probe answered with HTTP 200 and no X-Syncthing-Id header returns a
\* result with status NO_SYNCTHING_HEADER (never SUCCESS), no peer_info and an
\* error message.
C11_NoHeaderIsNoSyncthing ==
    \A i \in 1..Len(probes) :
        Answered200(probes[i].resp) /\ ~HasIdHeader(probes[i].resp)
        => /\ probes[i].result.status = NO_SYNCTHING_HEADER
           /\ probes[i].result.peer_info = NonePeerInfo
           /\ probes[i].result.error_message # NoneMsg

\* a 200 response with only a version header has been classified
C11_Witness ==
    \E i \in 1..Len(probes) :
        /\ Answered200(probes[i].resp)
        /\ probes[i].resp.headers = VersionHeader
        /\ probes[i].result.status = NO_SYNCTHING_HEADER

\* what C12 says of the result of a 200 response that carries the header
IdentityKept(p) ==
    /\ p.result.status = SUCCESS
    /\ p.result.peer_info.syncthing_device_id = p.resp.headers["X-Syncthing-Id"]
    /\ p.result.peer_info.tailscale_ip = p.ip
    /\ p.result.peer_info.syncthing_version
          = (IF "X-Syncthing-Version" \in DOMAIN p.resp.headers
             THEN p.resp.headers["X-Syncthing-Version"] ELSE "unknown")
    /\ p.result.peer_info.syncthing_port = 22000

\* C12 as stated: every 200 response with the X-Syncthing-Id header present,
\* whatever the header's value, yields SUCCESS with device_id equal to that
\* value, the probed IP, the version header or "unknown", and port 22000.
C12_PresentHeaderIsSuccess ==
    \A i \in 1..Len(probes) :
        Answered200(probes[i].resp) /\ HasIdHeader(probes[i].resp) => IdentityKept(probes[i])

\* C12 amended: every 200 response whose X-Syncthing-Id header is present and
\* not empty yields SUCCESS with device_id equal to that value unchanged, the
\* probed IP, the version header or "unknown", and port 22000.
C12_NonEmptyHeaderIsSuccess ==
    \A i \in 1..Len(probes) :
        /\ Answered200(probes[i].resp)
        /\ HasIdHeader(probes[i].resp)
        /\ probes[i].resp.headers["X-Syncthing-Id"] # ""
        => IdentityKept(probes[i])

\* an upper-case ID without a version header and a lower-case ID with one
\* have both been probed
C12_Witness ==
    /\ \E i \in 1..Len(probes) :
          /\ probes[i].resp.headers = IdHeader("DEV-AAA")
          /\ probes[i].result.status = SUCCESS
          /\ probes[i].result.peer_info.syncthing_version = "unknown"
    /\ \E i \in 1..Len(probes) :
          /\ Answered200(probes[i].resp)
          /\ probes[i].resp.headers = IdHeader("dev-bbb") @@ VersionHeader
          /\ probes[i].result.peer_info.syncthing_device_id = "dev-bbb"

\* C13: a probe answered with a status code other than 200 returns HTTP_ERROR,
\* an error message that carries the status code and no peer_info, with or
\* without the X-Syncthing-Id header on the response.
C13_Non200IsHttpError ==
    \A i \in 1..Len(probes) :
        probes[i].resp.kind = "response" /\ probes[i].resp.status_code # 200
        => /\ probes[i].result.status = HTTP_ERROR
           /\ probes[i].result.peer_info = NonePeerInfo
           /\ probes[i].result.error_message = <<"HTTP ", probes[i].resp.status_code>>

\* a 404 with the identity header and a 404 without it have been classified
C13_Witness ==
    /\ \E i \in 1..Len(probes) :
          /\ probes[i].resp.kind = "response" /\ probes[i].resp.status_code = 404
          /\ HasIdHeader(probes[i].resp)
          /\ probes[i].result.status = HTTP_ERROR
    /\ \E i \in 1..Len(probes) :
          /\ probes[i].resp.kind = "response" /\ probes[i].resp.status_code = 404
          /\ ~HasIdHeader(probes[i].resp)

\* C14: a probe whose connection attempt was refused returns
\* CONNECTION_REFUSED (not TIMEOUT, not UNKNOWN_ERROR), and a probe that timed
\* out never returns CONNECTION_REFUSED: no transport failure is both.
C14_RefusedIsNotTimeout ==
    \A i \in 1..Len(probes) :
        /\ IsRefusal(probes[i].resp) => probes[i].result.status = CONNECTION_REFUSED
        /\ probes[i].resp.kind = "TimeoutException"
              => probes[i].result.status # CONNECTION_REFUSED
        /\ probes[i].result.status = CONNECTION_REFUSED => IsRefusal(probes[i].resp)

\* a refusal worded without "Connection refused" and a timeout have been classified
C14_Witness ==
    /\ \E i \in 1..Len(probes) :
          /\ probes[i].resp.kind = "ConnectError"
          /\ probes[i].resp.text[1] = "[WinError 10061]"
          /\ probes[i].result.status = CONNECTION_REFUSED
    /\ \E i \in 1..Len(probes) :
          /\ probes[i].resp.kind = "TimeoutException"
          /\ probes[i].result.status = TIMEOUT

\* C15: a probe made with timeout 0, or of an address that does not answer
\* (packets dropped, or no route), returns with status TIMEOUT.
C15_UnansweredProbeIsTimeout ==
    \A i \in 1..Len(probes) :
        probes[i].timeout = 0 \/ probes[i].net \in {"silent", "unreachable"}
        => probes[i].result.status = TIMEOUT

\* C16: every call of the probe returns a result with one of the six statuses,
\* and a transport failure that is neither a refusal nor a timeout returns
\* UNKNOWN_ERROR with an error message that ends with the text of its cause.
C16_OtherFailureIsUnknown ==
    \A i \in 1..Len(probes) :
        /\ probes[i].result.status \in DiscoveryStatus
        /\ probes[i].resp.kind \in {"ConnectError", "Exception"} /\ ~IsRefusal(probes[i].resp)
           => /\ probes[i].result.status = UNKNOWN_ERROR
              /\ IsSuffix(probes[i].resp.text, probes[i].result.error_message)

\* a connection error that is no refusal and another exception have been classified
C16_Witness ==
    /\ \E i \in 1..Len(probes) :
          /\ probes[i].resp.kind = "ConnectError" /\ probes[i].resp.text = NoRouteText
          /\ probes[i].result.status = UNKNOWN_ERROR
    /\ \E i \in 1..Len(probes) :
          /\ probes[i].resp.kind = "Exception"
          /\ probes[i].result.status = UNKNOWN_ERROR


(* -------------------- properties of the probing loop ------------------- *)

\* the loop over the peers has not ended
Probing == rpc \in {"start", "get_online_peers", "probe"}

\* positions of the peer with this overlay IP in `discovered`
FoundAt(ip) == {j \in 1..Len(discovered) : IpOf(discovered[j]) = ip}

\* positions of this peer in `failed_peers`
FailedAt(peer) == {j \in 1..Len(failed_peers) : failed_peers[j][1] = peer}

\* C17: the probing loop partitions the peers it has probed: each is in
\* exactly one of `discovered` and `failed_peers`, once; it is in `discovered`
\* if and only if its probe returned SUCCESS; its entry in `failed_peers`
\* carries the result of its own probe; and once the loop has ended every
\* online peer has been probed, so |discovered| + |failed_peers| = |peers|.
C17_DiscoveryPartitionsPeers ==
    /\ Len(results) <= Len(peers)
    /\ Len(discovered) + Len(failed_peers) = Len(results)
    /\ \A k \in 1..Len(results) :
          LET found == FoundAt(peers[k].tailscale_ip)
              failed == FailedAt(peers[k])
          IN  /\ Cardinality(found) + Cardinality(failed) = 1
              /\ (found # {}) <=> (results[k].status = SUCCESS)
              /\ \A j \in found : discovered[j].syncthing_device_id
                                      = results[k].peer_info.syncthing_device_id
              /\ \A j \in failed : failed_peers[j][2] = results[k]
    /\ ~Probing /\ rpc # "raised" /\ rpc # "exit_1" => Len(results) = Len(peers)

\* three peers: two answered SUCCESS with distinct device IDs, one refused
C17_Witness ==
    /\ rpc = "select"
    /\ Len(peers) = 3
    /\ Len(discovered) = 2
    /\ discovered[1].syncthing_device_id # discovered[2].syncthing_device_id
    /\ Len(failed_peers) = 1
    /\ failed_peers[1][2].status = CONNECTION_REFUSED

\* what a run has filed for the peers probed so far
Filed == <<requests, results, failed_peers>>

\* C19: within one run the HTTP GETs made are one per online peer, in the
\* order of the peer list, none twice; and what was recorded for a peer (a
\* TIMEOUT or CONNECTION_REFUSED as much as any other outcome) is never
\* replaced afterwards.
C19_NoRetry ==
    /\ [](/\ Len(requests) <= Len(peers)
          /\ Len(results) = Len(requests)
          /\ \A k \in 1..Len(requests) : requests[k] = peers[k].tailscale_ip
          /\ \A k, l \in 1..Len(requests) : requests[k] = requests[l] => k = l
          /\ (rpc \in {"select", "return_none_discovered"} => Len(requests) = Len(peers)))
    /\ [][/\ IsPrefix(requests, requests')
          /\ IsPrefix(results, results')
          /\ IsPrefix(failed_peers, failed_peers')]_Filed

\* the loop has ended over two or more peers with a timeout and a refusal on record
C19_Witness ==
    /\ rpc = "return_none_discovered"
    /\ Len(requests) = Len(peers)
    /\ Len(peers) >= 2
    /\ \E j \in 1..Len(failed_peers) : failed_peers[j][2].status = TIMEOUT
    /\ \E j \in 1..Len(failed_peers) : failed_peers[j][2].status = CONNECTION_REFUSED

\* nothing of a pairing run beyond the prerequisite checks has happened
NothingDone ==
    /\ peers = <<>>
    /\ requests = <<>>
    /\ results = <<>>
    /\ history = <<>>
    /\ \A c \in Callers : frame[c].pc = "idle"
    /\ folderLog = <<>>
    /\ linkLog = <<>>
    /\ devices = devices0
    /\ folders = folders0

\* C20: a run on a host where tailscale is not installed or not running, or
\* syncthing is not installed, ends in the error exit with no membership query,
\* no probe and no configuration write made; and a run ends fatally (error
\* exit or uncaught exception) for no other reason.
C20_MissingPrerequisiteOnlyFatal ==
    /\ rpc # "start" /\ ~RequirePasses(prereq) => rpc = "exit_1" /\ NothingDone
    /\ rpc \in {"exit_1", "raised"} => ~RequirePasses(prereq)

\* where the command can be once the selection step is behind it
AfterSelection ==
    {"pair", "list_folders", "link", "done", "return_cancelled", "return_none_selected"}

\* the operator left the prompt without an answer, or confirmed an empty selection
Declined == aborted \/ (rpc \in AfterSelection /\ selected = <<>>)

\* C21: when the operator aborts the selection prompt, or confirms an empty
\* selection, the run ends there and has no side effect: no call of the pairing
\* operation, no device added, no address set, no share list changed, no
\* folder listed, whatever peers were probed before.
C21_DeclinedSelectionDoesNothing ==
    Declined =>
        /\ rpc \in {"return_cancelled", "return_none_selected"}
        /\ devices = devices0
        /\ folders = folders0
        /\ history = <<>>
        /\ \A c \in Callers : frame[c].pc = "idle"
        /\ paired_device_ids = <<>>
        /\ folderLog = <<>>
        /\ linkLog = <<>>

\* the prompt was aborted with two peers discovered, against a daemon that
\* has a device and managed folders
C21_Witness ==
    /\ aborted
    /\ rpc = "return_cancelled"
    /\ Len(discovered) = 2
    /\ devices0 # <<>>
    /\ Len(folders0) > 1

\* C22: get_online_peers never raises, whatever `tailscale status --json`
\* gives (no binary, a failing command, output that is not JSON, a document
\* without a peer map or with a null one, a peer entry with an empty address
\* list): the run never ends in an uncaught exception, and every peer of the
\* list it got is online.
C22_OnlinePeersNeverRaises ==
    /\ rpc # "raised"
    /\ \A k \in 1..Len(peers) : peers[k].online

\* the probing loop of the run has ended
DiscoveryOver == rpc \in {"select", "return_none_discovered"}

\* the failed peers whose probe ended with a status in `statuses`
FailedWith(statuses) == {j \in 1..Len(failed_peers) : failed_peers[j][2].status \in statuses}

\* the host is named in this section of the troubleshooting, and in no other
NamedOnlyIn(host, section, other_section) ==
    InList(host, section) /\ ~InList(host, other_section)

DenotesEpochZero(iso_time) == iso_time.parses /\ iso_time.at = EpochZero

\* C26: a last-seen timestamp that denotes the epoch-zero instant is rendered
\* "never" by _format_time in every textual form (UTC or any offset), never as
\* an elapsed duration; a missing or empty timestamp is rendered "never" too.
C26_EpochZeroIsNever ==
    \A i \in 1..Len(formatted) :
        LET call == formatted[i]
        IN  call.missing \/ call.iso_time.text = <<>> \/ DenotesEpochZero(call.iso_time)
            => Len(call.result) = 1 /\ call.result[1] = "never"

\* the status command has come to an end, one way or another
StatusOver == st.pc \in {"done", "raised", "return_not_running", "exit_1"}

\* the sources of the run that were unavailable
Unavailable == {u \in Sources : st.sources[u] # "ok"}

\* C24: with syncthing installed and exactly one of the seven sources
\* unavailable (failing, answering with another status than 200, or answering
\* with something unparsable), the status command completes and reports the
\* portions that remain: the paired devices and the managed folders at least.
C24_OneSourceDownStillReports ==
    StatusOver /\ st.installed /\ Cardinality(Unavailable) = 1 =>
        /\ st.pc = "done"
        /\ {"devices", "folders"} \subseteq st.printed

\* what the table shows for a device the connection data says is not connected
ConfirmedDisconnected == "[red]disconnected[/]"

\* C25: when the connection data is unavailable and the device table is
\* printed, every device is shown as not connected with no transfer, and with
\* a status that is not the one shown for a device the connection data
\* confirms as disconnected.
C25_UnknownIsNotDisconnected ==
    st.pc \in {"folders", "pending", "done"} /\ st.sources["connections"] # "ok" =>
        \A k \in 1..Len(st.device_rows) :
            /\ st.device_rows[k].status_str # "[green]connected[/]"
            /\ st.device_rows[k].transfer = <<"[dim]-[/]">>
            /\ st.device_rows[k].status_str # ConfirmedDisconnected

\* the calls the two callers made for the device, once both have returned
RaceCalls == {j \in 1..Len(history) : \E c \in Callers : history[j].peer_info = RaceArg(c)}

RaceOver == Cardinality(RaceCalls) = 2 /\ \A c \in Callers : frame[c].pc = "idle"

NewDeviceCalls ==
    {j \in 1..Len(history) :
        Complete(history[j].peer_info)
        /\ ~InList(IdOf(history[j].peer_info), DeviceIds(DevicesBefore(j)))}

\* C28: a call of pair for a device_id that is not configured issues
\* list-devices, then add-device, then set-device-address, in that order; the
\* address write is issued only after add-device succeeded; when add-device
\* fails the call returns false, issues no address write and leaves the
\* configuration as it was.
C28_AddBeforeAddress ==
    \A j \in NewDeviceCalls :
        LET cmds == history[j].cmds
        IN  /\ Len(cmds) >= 2
            /\ cmds[1].cmd = "list_devices"
            /\ cmds[2].cmd = "add_device"
            /\ cmds[2].rc = 0 =>
                  /\ Len(cmds) = 3
                  /\ cmds[3].cmd = "set_device_address"
            /\ cmds[2].rc # 0 =>
                  /\ Len(cmds) = 2
                  /\ history[j].result = FALSE
                  /\ history[j].devices = DevicesBefore(j)
            /\ \A k \in 1..Len(cmds) :
                  cmds[k].cmd = "set_device_address" =>
                      \E l \in 1..(k - 1) : cmds[l].cmd = "add_device" /\ cmds[l].rc = 0

\* a call whose add-device failed has returned false, and the next call for
\* the same device went through its three commands
C28_Witness ==
    \E i, j \in NewDeviceCalls :
        /\ i < j
        /\ IdOf(history[i].peer_info) = IdOf(history[j].peer_info)
        /\ history[i].cmds[2].rc # 0 /\ history[i].result = FALSE
        /\ Len(history[j].cmds) = 3 /\ AllExitZero(history[j].cmds)

====
